---- MODULE Spec2Model ----
(***************************************************************************)
(* Daily Mood Tracker: the mood-entry model (MoodEntry), the single-table  *)
(* store behind SecureDatabase and the repository MoodDatabase, whose      *)
(* calls interleave at every await on a store round trip.                  *)
(***************************************************************************)
EXTENDS Integers, Sequences, FiniteSets, TLC

(***************************************************************************)
(* Values                                                                  *)
(***************************************************************************)

\* A date value as JavaScript sees it.  kind "ymd" is a string that matches
\* /^\d{4}-\d{2}-\d{2}$/, carried as its three numbers; "malformed" is a
\* string that does not match; "missing" is undefined, null or ''.
YMD(y, m, d) == [kind |-> "ymd", y |-> y, m |-> m, d |-> d]
MalformedDate == [kind |-> "malformed", y |-> 0, m |-> 0, d |-> 0]
MissingDate == [kind |-> "missing", y |-> 0, m |-> 0, d |-> 0]

\* A date that is no string: a number.
NumberDate == [kind |-> "number", y |-> 0, m |-> 0, d |-> 0]

\* A note value: undefined (absent), null, or a string whose content is
\* named by txt.  len is the string's length property (its number of UTF-16
\* code units), chars its number of characters (code points, what SQLite's
\* length() counts).
UndefinedNote == [kind |-> "undefined", len |-> 0, chars |-> 0, txt |-> ""]
NullNote == [kind |-> "null", len |-> 0, chars |-> 0, txt |-> ""]
\* A string of len characters of the Basic Multilingual Plane.
StrNote(len, txt) == [kind |-> "string", len |-> len, chars |-> len, txt |-> txt]
EmptyNote == StrNote(0, "")
\* A string of chars characters outside the Basic Multilingual Plane (the
\* mood symbols are such): each one is two UTF-16 code units.
SurrogateNote(chars, txt) ==
    [kind |-> "string", len |-> 2 * chars, chars |-> chars, txt |-> txt]

\* A note that is no string: a number.
NumberNote == [kind |-> "number", len |-> 0, chars |-> 0, txt |-> ""]

\* An emoji that is no string: a number.
NumberEmoji == "#number"

NoteLimit == 500

\* const allowedEmojis = [sad, neutral, happy, very happy, loved]
allowedEmojis == <<"sad", "neutral", "happy", "very_happy", "loved">>

\* String order of two dates in YYYY-MM-DD form (fixed width, zero padded):
\* the comparison SQLite (BINARY collation) and JavaScript (<, >) make.
DateLess(a, b) ==
    \/ a.y < b.y
    \/ a.y = b.y /\ a.m < b.m
    \/ a.y = b.y /\ a.m = b.m /\ a.d < b.d

(***************************************************************************)
(* MoodEntry                                                               *)
(***************************************************************************)

IsLeap(y) == (y % 4 = 0 /\ y % 100 # 0) \/ y % 400 = 0

DaysInMonth(y, m) ==
    IF m = 2 THEN (IF IsLeap(y) THEN 29 ELSE 28)
    ELSE IF m \in {4, 6, 9, 11} THEN 30 ELSE 31

\* new Date(dateString) for a string in YYYY-MM-DD form: the date-only ISO
\* form is read as UTC midnight; month 1..12 and day 1..31 are accepted and
\* a day past the month's end rolls over into the next month; anything else
\* is an Invalid Date (ok = FALSE, every getter NaN).
ParseDate(ds) ==
    IF ds.m \in 1..12 /\ ds.d \in 1..31
    THEN IF ds.d <= DaysInMonth(ds.y, ds.m)
         THEN [ok |-> TRUE, y |-> ds.y, m |-> ds.m, d |-> ds.d]
         ELSE [ok |-> TRUE, y |-> ds.y, m |-> ds.m + 1,
               d |-> ds.d - DaysInMonth(ds.y, ds.m)]
    ELSE [ok |-> FALSE, y |-> 0, m |-> 0, d |-> 0]

\* The calendar day before (y, m, d).
PrevDay(t) ==
    IF t.d > 1 THEN [t EXCEPT !.d = t.d - 1]
    ELSE IF t.m > 1
         THEN [t EXCEPT !.m = t.m - 1, !.d = DaysInMonth(t.y, t.m - 1)]
         ELSE [t EXCEPT !.y = t.y - 1, !.m = 12, !.d = 31]

\* getFullYear / getMonth + 1 / getDate: the local calendar day of the UTC
\* midnight.  zone = -1 for a process whose local time is behind UTC (the
\* local day is the previous one), 0 at or ahead of UTC.
LocalDay(t, zone) == IF zone < 0 THEN PrevDay(t) ELSE t

\* A date check that stops at the pattern YYYY-MM-DD.
isValidDatePattern(ds, zone) == ds.kind = "ymd"

isValidDate(ds, zone) ==
    IF ds.kind # "ymd" THEN FALSE
    ELSE LET t == ParseDate(ds)
             l == LocalDay(t, zone)
         IN t.ok /\ l.y = ds.y /\ l.m = ds.m /\ l.d = ds.d

\* The helper of the query checks: the same pattern test, parse and read-back.
isValidDateString(ds, zone) ==
    IF ds.kind # "ymd" THEN FALSE
    ELSE LET t == ParseDate(ds)
             l == LocalDay(t, zone)
         IN t.ok /\ l.y = ds.y /\ l.m = ds.m /\ l.d = ds.d

\* validateDateParam: the 400 answer, or next() with req.validatedDate.
validateDateParam(ds, zone) ==
    IF ds.kind = "missing"
    THEN [next |-> FALSE, status |-> 400, error |-> "Date parameter is required"]
    ELSE IF ds.kind # "ymd"
    THEN [next |-> FALSE, status |-> 400,
          error |-> "Invalid date format. Use YYYY-MM-DD format"]
    ELSE LET t == ParseDate(ds)
             l == LocalDay(t, zone)
         IN IF ~t.ok \/ l.y # ds.y \/ l.m # ds.m \/ l.d # ds.d
            THEN [next |-> FALSE, status |-> 400,
                  error |-> "Invalid date. Please provide a valid date in YYYY-MM-DD format"]
            ELSE [next |-> TRUE, status |-> 0, error |-> ""]

Includes(seq, x) == \E i \in 1..Len(seq) : seq[i] = x

\* MoodEntry.validate: the list of messages of every violated rule.
validate(e, zone) ==
    (IF e.date.kind = "missing" THEN <<"Date is required">>
     ELSE IF ~isValidDate(e.date, zone)
          THEN <<"date must be in YYYY-MM-DD format">>
          ELSE <<>>)
    \o
    (IF e.emoji = "" THEN <<"Emoji is required">>
     ELSE IF ~Includes(allowedEmojis, e.emoji)
          THEN <<"emoji must be one of: sad, neutral, happy, very_happy, loved">>
          ELSE <<>>)
    \o
    (IF e.note.kind = "string" /\ e.note.len > NoteLimit
     THEN <<"note must be 500 characters or less">>
     ELSE <<>>)

\* A constructor that keeps the note it is given.
NormalizeNoteKeep(note) == note

\* A constructor that drops every note.
NormalizeNoteDrop(note) == NullNote

\* this.note = (note === '' || note === undefined) ? null : note
NormalizeNote(note) ==
    IF note = EmptyNote \/ note.kind = "undefined" THEN NullNote ELSE note

\* The fields the MoodEntry constructor sets; id 0 stands for null, and
\* t1, t2 are the two clock readings used when no timestamp is given.
MoodEntry(id, date, emoji, note, created_at, updated_at, t1, t2) ==
    [id |-> id, date |-> date, emoji |-> emoji, note |-> NormalizeNote(note),
     created_at |-> IF created_at = 0 THEN t1 ELSE created_at,
     updated_at |-> IF updated_at = 0 THEN t2 ELSE updated_at]

\* MoodEntry.fromDbRow(row): the stored timestamps are kept.
fromDbRow(row) ==
    MoodEntry(row.id, row.date, row.emoji, row.note,
              row.created_at, row.updated_at, 0, 0)

\* The value a lookup yields for "no row" (JavaScript null / undefined).
NoEntry ==
    [id |-> -1, date |-> MissingDate, emoji |-> "", note |-> NullNote,
     created_at |-> 0, updated_at |-> 0]

\* MoodEntry.validateInput(data): the required-field and type checks, and
\* only when these find nothing a temporary MoodEntry whose error message
\* (the entity's messages joined) becomes the one element of errors; the
\* joined message is kept as the sequence of its parts.
validateInput(data, zone) ==
    LET first ==
            (IF data.date.kind = "missing" THEN <<"Date is required">> ELSE <<>>)
            \o (IF data.emoji = "" THEN <<"Emoji is required">> ELSE <<>>)
            \o (IF data.date.kind = "number" THEN <<"date must be a string">> ELSE <<>>)
            \o (IF data.emoji = NumberEmoji THEN <<"Emoji must be a string">> ELSE <<>>)
            \o (IF data.note.kind = "number" THEN <<"note must be a string">> ELSE <<>>)
        second == validate(MoodEntry(0, data.date, data.emoji, data.note, 0, 0, 1, 1), zone)
    IN IF first # <<>> THEN [isValid |-> FALSE, errors |-> first]
       ELSE IF second = <<>> THEN [isValid |-> TRUE, errors |-> <<>>]
       ELSE [isValid |-> FALSE, errors |-> second]

(***************************************************************************)
(* The store: table mood_entries                                           *)
(***************************************************************************)

\* SELECT * FROM mood_entries WHERE date = ?  (db.get: the first match)
DbGet(rows, date) ==
    IF \E r \in rows : r.date = date
    THEN CHOOSE r \in rows : r.date = date
    ELSE NoEntry

\* The table without its UNIQUE constraint on date.
UniqueDateOff(rows, date) == TRUE

\* date DATE NOT NULL UNIQUE
UniqueDateOk(rows, date) == \A r \in rows : r.date # date

\* CHECK (emoji IN (...)) and CHECK (length(note) <= 500)
CheckOk(e) ==
    /\ Includes(allowedEmojis, e.emoji)
    /\ (e.note.kind = "string" => e.note.chars <= NoteLimit)

\* INSERT OR REPLACE in place of INSERT: a row of the same date is overwritten.
DbInsertOrReplace(rows, lastId, e) ==
    [ok |-> TRUE, code |-> "", message |-> "",
     rows |-> {r \in rows : r.date # e.date} \cup {[e EXCEPT !.id = lastId + 1]},
     lastId |-> lastId + 1, id |-> lastId + 1]

\* An upsert (ON CONFLICT(date) DO UPDATE): the row of the date keeps its id
\* and takes the new emoji, note and timestamps.
DbInsertUpsert(rows, lastId, e) ==
    IF \E r \in rows : r.date = e.date
    THEN LET old == CHOOSE r \in rows : r.date = e.date
         IN [ok |-> TRUE, code |-> "", message |-> "",
             rows |-> (rows \ {old}) \cup {[e EXCEPT !.id = old.id]},
             lastId |-> lastId, id |-> old.id]
    ELSE [ok |-> TRUE, code |-> "", message |-> "",
          rows |-> rows \cup {[e EXCEPT !.id = lastId + 1]},
          lastId |-> lastId + 1, id |-> lastId + 1]

\* The largest id of the table, 0 for an empty table.
MaxRowid(rows) ==
    IF rows = {} THEN 0 ELSE (CHOOSE r \in rows : \A q \in rows : q.id <= r.id).id

\* An INSERT into a table whose id is INTEGER PRIMARY KEY without
\* AUTOINCREMENT: the new id is one more than the largest id in the table.
DbInsertRowid(rows, lastId, e) ==
    IF ~CheckOk(e) \/ ~UniqueDateOk(rows, e.date)
    THEN [ok |-> FALSE, code |-> "SQLITE_CONSTRAINT",
          message |-> IF ~CheckOk(e) THEN "CHECK constraint failed: mood_entries"
                      ELSE "UNIQUE constraint failed: mood_entries.date",
          rows |-> rows, lastId |-> lastId, id |-> 0]
    ELSE [ok |-> TRUE, code |-> "", message |-> "",
          rows |-> rows \cup {[e EXCEPT !.id = MaxRowid(rows) + 1]},
          lastId |-> MaxRowid(rows) + 1, id |-> MaxRowid(rows) + 1]

\* INSERT INTO mood_entries (date, emoji, note, created_at, updated_at):
\* the new table and sequence, or the constraint error.  id INTEGER PRIMARY
\* KEY AUTOINCREMENT takes the next value of the table's sequence.
DbInsert(rows, lastId, e) ==
    IF ~CheckOk(e)
    THEN [ok |-> FALSE, code |-> "SQLITE_CONSTRAINT",
          message |-> "CHECK constraint failed: mood_entries",
          rows |-> rows, lastId |-> lastId, id |-> 0]
    ELSE IF ~UniqueDateOk(rows, e.date)
    THEN [ok |-> FALSE, code |-> "SQLITE_CONSTRAINT",
          message |-> "UNIQUE constraint failed: mood_entries.date",
          rows |-> rows, lastId |-> lastId, id |-> 0]
    ELSE [ok |-> TRUE, code |-> "", message |-> "",
          rows |-> rows \cup {[e EXCEPT !.id = lastId + 1]},
          lastId |-> lastId + 1, id |-> lastId + 1]

\* The errors an INSERT can fail with for reasons outside the table: the
\* database is locked, the disk fails.
StoreFailures ==
    {[code |-> "SQLITE_BUSY", message |-> "SQLITE_BUSY: database is locked"],
     [code |-> "SQLITE_IOERR", message |-> "SQLITE_IOERR: disk I/O error"]}

\* The INSERT rejected with error e: the callback of db.run gets err, the
\* table and its sequence stay as they are.
DbInsertFails(rows, lastId, e) ==
    [ok |-> FALSE, code |-> e.code, message |-> e.message,
     rows |-> rows, lastId |-> lastId, id |-> 0]

\* A WHERE clause with strict comparisons: the bounds themselves are left out.
WhereExclusive(r, from, to) ==
    /\ from.kind # "missing" => DateLess(from, r.date)
    /\ to.kind # "missing" => DateLess(r.date, to)

\* The WHERE clause getMoodEntries builds: BETWEEN ? AND ? when both from
\* and to are given, date >= ? or date <= ? when one is, none otherwise.
Where(r, from, to) ==
    IF from.kind # "missing" /\ to.kind # "missing"
    THEN ~DateLess(r.date, from) /\ ~DateLess(to, r.date)
    ELSE IF from.kind # "missing" THEN ~DateLess(r.date, from)
    ELSE IF to.kind # "missing" THEN ~DateLess(to, r.date)
    ELSE TRUE

\* A count that leaves the WHERE clause out.
DbCountAll(rows, from, to) == Cardinality(rows)

\* SELECT COUNT(*) as total FROM mood_entries ${whereClause}
DbCount(rows, from, to) == Cardinality({r \in rows : Where(r, from, to)})

\* ORDER BY date DESC: the rows as a sequence, the latest date first.
RECURSIVE OrderByDateDesc(_)
OrderByDateDesc(S) ==
    IF S = {} THEN <<>>
    ELSE LET top == CHOOSE r \in S : \A q \in S : ~DateLess(r.date, q.date)
         IN <<top>> \o OrderByDateDesc(S \ {top})

\* LIMIT ? OFFSET ? on a sequence of rows.
LimitOffset(seq, limit, offset) ==
    SubSeq(seq, offset + 1, IF offset + limit < Len(seq) THEN offset + limit ELSE Len(seq))

\* SELECT * FROM mood_entries ${whereClause} ORDER BY date DESC LIMIT ? OFFSET ?
DbPage(rows, from, to, limit, offset) ==
    LimitOffset(OrderByDateDesc({r \in rows : Where(r, from, to)}), limit, offset)

\* A DELETE that counts the matching rows and removes none.
DbDeleteNone(rows, date) ==
    [rows |-> rows, changes |-> Cardinality({r \in rows : r.date = date})]

\* A DELETE without its WHERE clause: every row goes.
DbDeleteAll(rows, date) ==
    [rows |-> {}, changes |-> Cardinality(rows)]

\* DELETE FROM mood_entries WHERE date = ?  : the rows left, and changes
DbDelete(rows, date) ==
    [rows |-> {r \in rows : r.date # date},
     changes |-> Cardinality({r \in rows : r.date = date})]

\* The clock readings of one calendar day.
TicksPerDay == 2

\* DATE(created_at): the calendar day of a timestamp, as a day count.
DateOfStamp(t) == (t + TicksPerDay - 1) \div TicksPerDay

\* The query of getStatistics without its WHERE clause.
DbStatsAll(rows, cutoff) ==
    {[emoji |-> g[1], date |-> g[2],
      count |-> Cardinality({r \in rows :
                    r.emoji = g[1] /\ DateOfStamp(r.created_at) = g[2]})] :
        g \in {<<r.emoji, DateOfStamp(r.created_at)>> : r \in rows}}

\* SELECT emoji, COUNT(*) as count, DATE(created_at) as date FROM mood_entries
\* WHERE date >= ? GROUP BY emoji, DATE(created_at): one row per group.
DbStats(rows, cutoff) ==
    LET S == {r \in rows : ~DateLess(r.date, cutoff)}
    IN {[emoji |-> g[1], date |-> g[2],
         count |-> Cardinality({r \in S :
                       r.emoji = g[1] /\ DateOfStamp(r.created_at) = g[2]})] :
           g \in {<<r.emoji, DateOfStamp(r.created_at)>> : r \in S}}

(***************************************************************************)
(* Results of a repository call                                            *)
(***************************************************************************)

NoMessage == [text |-> "", date |-> MissingDate, errors |-> <<>>]

NoPage == [moods |-> <<>>, total |-> 0, page |-> 0, limit |-> 0, totalPages |-> 0]

\* What getStatistics returns: distribution is the object's set of
\* <<key, value>> pairs, dailyBreakdown the rows of the query.
NoStats == [totalEntries |-> 0, distribution |-> {}, dailyBreakdown |-> {}, period |-> 0]

Pending ==
    [kind |-> "pending", name |-> "", code |-> "", message |-> NoMessage,
     suggestion |-> "", entry |-> NoEntry, page |-> NoPage, stats |-> NoStats]

Returned(e) == [Pending EXCEPT !.kind = "entry", !.entry = e]

\* class ValidationError: name 'ValidationError', message errors.join('; ')
ValidationError(errors) ==
    [Pending EXCEPT !.kind = "error", !.name = "ValidationError",
                    !.message = [NoMessage EXCEPT !.errors = errors]]

\* new Error(`Mood entry for ${moodEntry.date} already exists`) with code
\* DUPLICATE_DATE and the suggestion
DuplicateDate(date) ==
    [Pending EXCEPT !.kind = "error", !.name = "Error", !.code = "DUPLICATE_DATE",
        !.message = [NoMessage EXCEPT !.text = "Mood entry for ${date} already exists",
                                      !.date = date],
        !.suggestion = "Consider updating, editing, or deleting the existing entry first"]

\* new Error(`Mood entry for ${date} not found`) with code NOT_FOUND
NotFound(date) ==
    [Pending EXCEPT !.kind = "error", !.name = "Error", !.code = "NOT_FOUND",
        !.message = [NoMessage EXCEPT !.text = "Mood entry for ${date} not found",
                                      !.date = date]]

\* new Error(text) of getMoodEntries
PlainError(text) ==
    [Pending EXCEPT !.kind = "error", !.name = "Error",
                    !.message = [NoMessage EXCEPT !.text = text]]

\* An error of the store, thrown on as it is.
StoreError(r) ==
    [Pending EXCEPT !.kind = "error", !.name = "Error", !.code = r.code,
        !.message = [NoMessage EXCEPT !.text = r.message]]

(***************************************************************************)
(* MoodDatabase: the steps of a call between two awaits                    *)
(***************************************************************************)

\* getMoodEntryByDate: the entry built from the row, null (NoEntry) when
\* there is no row; fromDbRow validates the row as the constructor does.
getMoodEntryByDate(rows, date, zone) ==
    LET row == DbGet(rows, date)
    IN IF row = NoEntry
       THEN [ok |-> TRUE, entry |-> NoEntry, errors |-> <<>>]
       ELSE LET e == fromDbRow(row)
            IN [ok |-> validate(e, zone) = <<>>, entry |-> e,
                errors |-> validate(e, zone)]

\* The local state of a call that has not been made: op the method called,
\* pc the await it stands at, date and data its arguments, ent the moodEntry
\* of createMoodEntry and found its existing, existing the existing of
\* deleteMoodEntryByDate and deleted what that method gave, result what the
\* call gave, ops the store operations createMoodEntry has issued, options
\* and total the options and the total of getMoodEntries, days the days of
\* getStatistics and today the day its new Date() read.
NoData == [date |-> MissingDate, emoji |-> "", note |-> UndefinedNote]

\* const { limit = 20, page = 1, from = null, to = null } = options
DefaultLimit == 20
DefaultPage == 1
NoOptions ==
    [limit |-> DefaultLimit, page |-> DefaultPage, from |-> MissingDate, to |-> MissingDate]

\* No response sent yet; response is what a route has sent (res.status,
\* res.json), duration the timer's duration and warned whether the route
\* has logged that the budget was exceeded.
NoResponse ==
    [status |-> 0, message |-> NoMessage, suggestion |-> "", entry |-> NoEntry]

\* No error caught; caught is the sqliteError of createMoodEntry's catch.
NoError == [code |-> "", message |-> ""]

NoCall ==
    [op |-> "none", pc |-> "idle", date |-> MissingDate, data |-> NoData,
     ent |-> NoEntry, found |-> NoEntry, existing |-> NoEntry, deleted |-> Pending,
     result |-> Pending, ops |-> 0, options |-> NoOptions, total |-> 0,
     days |-> 0, today |-> MissingDate, caught |-> NoError,
     duration |-> 0, warned |-> FALSE, response |-> NoResponse]

\* createMoodEntry with a constructor that does not validate.
createConstructUnchecked(k, moodData, t1, t2, zone) ==
    [k EXCEPT !.data = moodData, !.ops = 0, !.pc = "lookup",
              !.ent = MoodEntry(0, moodData.date, moodData.emoji, moodData.note,
                                0, 0, t1, t2)]

\* createMoodEntry up to its first await: new MoodEntry(moodData) validates
\* and throws before anything is asked of the store.
createConstruct(k, moodData, t1, t2, zone) ==
    LET e == MoodEntry(0, moodData.date, moodData.emoji, moodData.note, 0, 0, t1, t2)
        errors == validate(e, zone)
    IN IF errors # <<>>
       THEN [k EXCEPT !.data = moodData, !.ops = 0, !.pc = "done",
                      !.result = ValidationError(errors)]
       ELSE [k EXCEPT !.data = moodData, !.ops = 0, !.ent = e, !.pc = "lookup"]

\* createMoodEntry from the answer of its lookup to the next await.
createLookup(k, rows, zone) ==
    LET got == getMoodEntryByDate(rows, k.ent.date, zone)
    IN IF ~got.ok
       THEN [k EXCEPT !.ops = k.ops + 1, !.pc = "done",
                      !.result = ValidationError(got.errors)]
       ELSE IF got.entry # NoEntry
       THEN [k EXCEPT !.ops = k.ops + 1, !.found = got.entry, !.pc = "done",
                      !.result = DuplicateDate(k.ent.date)]
       ELSE [k EXCEPT !.ops = k.ops + 1, !.found = NoEntry, !.pc = "insert"]

\* sqliteError.message.includes('mood_entries.date'): the messages of the
\* store that name the column.
MentionsDateColumn(message) ==
    message \in {"UNIQUE constraint failed: mood_entries.date",
                 "NOT NULL constraint failed: mood_entries.date"}

\* A catch block that takes every error for a duplicate date.
IsDateConstraintAlways(r) == TRUE

\* A catch block that recognises no constraint error.
IsDateConstraintNever(r) == FALSE

\* The catch block of createMoodEntry: a constraint error that names
\* mood_entries.date is turned into DUPLICATE_DATE, any other is thrown on.
IsDateConstraint(r) ==
    /\ r.code = "SQLITE_CONSTRAINT"
    /\ MentionsDateColumn(r.message)

\* createMoodEntry from the answer of its INSERT to its end.
createInsert(k, r) ==
    IF r.ok
    THEN [k EXCEPT !.ops = k.ops + 1, !.ent = [k.ent EXCEPT !.id = r.id],
                   !.pc = "done", !.result = Returned([k.ent EXCEPT !.id = r.id])]
    ELSE IF IsDateConstraint(r)
    THEN [k EXCEPT !.ops = k.ops + 1, !.pc = "done",
                   !.caught = [code |-> r.code, message |-> r.message],
                   !.result = DuplicateDate(k.ent.date)]
    ELSE [k EXCEPT !.ops = k.ops + 1, !.pc = "done",
                   !.caught = [code |-> r.code, message |-> r.message],
                   !.result = StoreError(r)]

\* deleteMoodEntryByDate from the answer of its lookup to the next await.
deleteLookup(k, rows, zone) ==
    LET got == getMoodEntryByDate(rows, k.date, zone)
    IN IF ~got.ok
       THEN [k EXCEPT !.pc = "done", !.deleted = ValidationError(got.errors),
                      !.result = ValidationError(got.errors)]
       ELSE IF got.entry = NoEntry
       THEN [k EXCEPT !.pc = "done", !.deleted = NotFound(k.date),
                      !.result = NotFound(k.date)]
       ELSE [k EXCEPT !.existing = got.entry, !.pc = "run"]

\* The checks getMoodEntries makes before it asks the store anything.
MinLimit == 1
MaxLimit == 100
MinPage == 1
\* Checks that clamp the limit into [1, 100] and put page 1 for a page < 1.
listCheckClamped(k) ==
    LET o == k.options
        limit == IF o.limit < 1 THEN 1 ELSE IF o.limit > 100 THEN 100 ELSE o.limit
        page == IF o.page < 1 THEN 1 ELSE o.page
    IN IF o.from.kind # "missing" /\ o.to.kind # "missing" /\ DateLess(o.to, o.from)
       THEN [k EXCEPT !.pc = "done",
                      !.result = PlainError("From date cannot be after to date")]
       ELSE [k EXCEPT !.pc = "count", !.options = [o EXCEPT !.limit = limit, !.page = page]]

listCheck(k) ==
    LET o == k.options
    IN IF o.limit < MinLimit \/ o.limit > MaxLimit
       THEN [k EXCEPT !.pc = "done",
                      !.result = PlainError("Limit must be between 1 and 100")]
       ELSE IF o.page < MinPage
       THEN [k EXCEPT !.pc = "done",
                      !.result = PlainError("Page must be 1 or greater")]
       ELSE IF o.from.kind # "missing" /\ o.to.kind # "missing" /\ DateLess(o.to, o.from)
       THEN [k EXCEPT !.pc = "done",
                      !.result = PlainError("From date cannot be after to date")]
       ELSE [k EXCEPT !.pc = "count"]

\* getMoodEntries from the answer of its count query to the next await.
listCount(k, total) == [k EXCEPT !.total = total, !.pc = "page"]

\* An offset that skips the page asked for as well.
OffsetPastPage(page, limit) == page * limit

\* const offset = (page - 1) * limit
Offset(page, limit) == (page - 1) * limit

\* Math.ceil(total / limit)
Ceil(total, limit) == (total + limit - 1) \div limit

\* getMoodEntries from the answer of its page query to its end:
\* rows.map(row => MoodEntry.fromDbRow(row)) and the result object.
listPage(k, found, zone) ==
    LET moods == [i \in 1..Len(found) |-> fromDbRow(found[i])]
        bad == {i \in 1..Len(found) : validate(moods[i], zone) # <<>>}
    IN IF bad # {}
       THEN [k EXCEPT !.pc = "done",
               !.result = ValidationError(
                   validate(moods[CHOOSE i \in bad : \A j \in bad : i <= j], zone))]
       ELSE [k EXCEPT !.pc = "done",
               !.result = [Pending EXCEPT !.kind = "page",
                   !.page = [moods |-> moods, total |-> k.total,
                             page |-> k.options.page, limit |-> k.options.limit,
                             totalPages |-> Ceil(k.total, k.options.limit)]]]

\* deleteMoodEntryByDate without the test of result.changes.
deleteRunUnchecked(k, changes) ==
    [k EXCEPT !.pc = "done", !.deleted = Returned(k.existing),
              !.result = Returned(k.existing)]

\* deleteMoodEntryByDate from the answer of its DELETE to its end.
deleteRun(k, changes) ==
    IF changes = 0
    THEN [k EXCEPT !.pc = "done", !.deleted = NotFound(k.date),
                   !.result = NotFound(k.date)]
    ELSE [k EXCEPT !.pc = "done", !.deleted = Returned(k.existing),
                   !.result = Returned(k.existing)]

\* cutoffDate.setDate(cutoffDate.getDate() - days): the day n days before t
\* (after it for a negative n is not needed: days is at least 0 here).
RECURSIVE MinusDays(_, _)
MinusDays(t, n) == IF n <= 0 THEN t ELSE MinusDays(PrevDay(t), n - 1)

\* The sum of the counts of a set of rows of the statistics query.
RECURSIVE SumCount(_)
SumCount(G) ==
    IF G = {} THEN 0
    ELSE LET g == CHOOSE x \in G : TRUE IN g.count + SumCount(G \ {g})

\* getStatistics from the answer of its query to its end: the forEach that
\* adds the counts up per emoji and in total, and the result object.
statsResult(k, stats) ==
    [k EXCEPT !.pc = "done",
        !.result = [Pending EXCEPT !.kind = "stats",
            !.stats = [totalEntries |-> SumCount(stats),
                       distribution |->
                           {<<e, SumCount({g \in stats : g.emoji = e})>> :
                               e \in {g.emoji : g \in stats}},
                       dailyBreakdown |-> stats,
                       period |-> k.days]]]
\* this.budgets.MOOD_ENTRY, in ms
BudgetMoodEntry == 100

\* validateBudget(timer, 'mood_entry') for a timer that has ended.
validateBudget(duration) == duration <= BudgetMoodEntry

\* The answer of validateMoodEntry to a body MoodEntry.validateInput refuses.
respondInvalid(k, v) ==
    [k EXCEPT !.pc = "done",
        !.result = [Pending EXCEPT !.kind = "invalid",
                       !.message = [NoMessage EXCEPT !.errors = v.errors]],
        !.response = [NoResponse EXCEPT !.status = 400,
                         !.message = [NoMessage EXCEPT !.errors = v.errors]]]

\* A route that answers 503 when the budget was exceeded.
respondWithinBudgetOnly(k, duration) ==
    [k EXCEPT !.duration = duration, !.warned = ~validateBudget(duration),
        !.response =
            IF ~validateBudget(duration)
            THEN [NoResponse EXCEPT !.status = 503]
            ELSE IF k.result.kind = "entry"
            THEN [NoResponse EXCEPT !.status = 201, !.entry = k.result.entry]
            ELSE [NoResponse EXCEPT !.status = 500]]

\* router.post('/') after db.createMoodEntry has returned or thrown:
\* endTimer, validateBudget and the warning, and the response.
respond(k, duration) ==
    [k EXCEPT !.duration = duration,
        !.warned = k.result.kind = "entry" /\ ~validateBudget(duration),
        !.response =
            IF k.result.kind = "entry"
            THEN [NoResponse EXCEPT !.status = 201, !.entry = k.result.entry]
            ELSE IF k.result.code = "DUPLICATE_DATE"
            THEN [NoResponse EXCEPT !.status = 409, !.message = k.result.message,
                                    !.suggestion = k.result.suggestion]
            ELSE [NoResponse EXCEPT !.status = 500,
                     !.message = [NoMessage EXCEPT !.text = "Internal server error"]]]

(***************************************************************************)
(* State                                                                   *)
(***************************************************************************)

\* The number of repository calls of a run.
MaxCalls == 3

Calls == 1..MaxCalls

\* The dates, emojis and notes the calls are made with.
Day1 == YMD(2025, 9, 21)
Day2 == YMD(2025, 9, 22)
Dates == {Day1, Day2}
Candidates ==
    {[date |-> Day1, emoji |-> "sad", note |-> UndefinedNote],
     [date |-> Day1, emoji |-> "happy", note |-> StrNote(1, "a")],
     [date |-> Day2, emoji |-> "sad", note |-> EmptyNote],
     [date |-> Day1, emoji |-> "other", note |-> StrNote(1, "a")],
     [date |-> YMD(2025, 2, 30), emoji |-> "happy", note |-> UndefinedNote]}

\* The moodData updateMoodEntry is called with: its date is replaced.
UpdateData ==
    {[date |-> Day2, emoji |-> "sad", note |-> EmptyNote],
     [date |-> Day1, emoji |-> "other", note |-> StrNote(1, "a")]}

VARIABLES
    zone,      \* the process's time zone: -1 behind UTC, 0 at or ahead of UTC
    rows,      \* table mood_entries
    lastId,    \* the AUTOINCREMENT sequence of mood_entries
    call,      \* the local state of each repository call
    removed,   \* history: the row a call's DELETE took out of the table
    createdSince,   \* history: a row of the call's date was inserted by another
                    \* call after the call's latest store operation
    deletedSince,   \* history: a row of the call's date was deleted by another
                    \* call after the call's latest store operation
    createdBetween, \* history: a row of the call's date was inserted between
                    \* the lookup and the DELETE of the call
    dbInitialized,  \* the routes' flag: let dbInitialized
    connections,    \* history: the number of store connections opened
    request,        \* the position of each HTTP request in its route
    tracker,        \* the page's MoodTracker object and its localStorage
    worker          \* the service worker and its cache of offline requests

repoVars == <<zone, rows, lastId, call, removed, createdSince, deletedSince, createdBetween>>
hostVars == <<dbInitialized, connections, request>>
clientVars == <<tracker, worker>>
vars == <<repoVars, hostVars, clientVars>>

\* The routes that await ensureDbInitialized() before they touch the store.
Routes ==
    {"POST /", "GET /:date", "GET /", "DELETE /:date", "GET /health/check",
     "GET /stats/summary"}

\* A request is in no route yet, inside db.initialize(), or past
\* ensureDbInitialized() in its handler.
NoRequest == [route |-> "", pc |-> "none"]

\* ensureDbInitialized up to its first await: the test of the flag.
ensureDbInitialized(q, initialized) ==
    IF ~initialized THEN [q EXCEPT !.pc = "initialize"] ELSE [q EXCEPT !.pc = "handler"]

InitHost ==
    /\ dbInitialized = FALSE
    /\ connections = 0
    /\ request = [c \in Calls |-> NoRequest]

\* The number of moods saved offline in a run.
MaxOffline == 3

\* The moods the page saves or posts while the network is away.
OfflineData ==
    {[date |-> Day1, emoji |-> "sad", note |-> EmptyNote],
     [date |-> Day2, emoji |-> "happy", note |-> StrNote(1, "a")]}

\* localStorage without the item STORAGE_KEY.
NoItem == [present |-> FALSE, entries |-> <<>>]

\* The MoodTracker after init() on a browser that has stored nothing.
NoTracker ==
    [offlineEntries |-> <<>>, localStorage |-> NoItem, clock |-> 0,
     pc |-> "idle", entries |-> <<>>, results |-> <<>>]

\* saveMoodOffline(data) at time now.
saveMoodOffline(t, data, now) ==
    LET entries == Append(t.offlineEntries,
                          [date |-> data.date, emoji |-> data.emoji, note |-> data.note,
                           timestamp |-> now, id |-> now])
    IN [t EXCEPT !.offlineEntries = entries,
                 !.localStorage = [present |-> TRUE, entries |-> entries]]

\* syncOfflineEntries up to await Promise.allSettled: one submitMoodEntry
\* is under way for every entry of the list.
syncOfflineEntries(t) ==
    [t EXCEPT !.pc = "allSettled", !.entries = t.offlineEntries,
              !.results = [i \in 1..Len(t.offlineEntries) |-> "pending"]]

\* syncOfflineEntries after Promise.allSettled.
syncSettled(t) ==
    LET successful == Cardinality({i \in 1..Len(t.results) : t.results[i] = "success"})
    IN IF successful > 0
       THEN [t EXCEPT !.pc = "idle", !.offlineEntries = <<>>, !.localStorage = NoItem]
       ELSE [t EXCEPT !.pc = "idle"]

\* The service worker with an empty cache of offline requests.
NoWorker ==
    [requests |-> <<>>, clock |-> 0,
     store |-> [pc |-> "idle", offlineRequests |-> <<>>],
     sync |-> [pc |-> "idle", offlineRequests |-> <<>>, syncResults |-> <<>>],
     stored |-> {}, posted |-> {}]

\* storeOfflineRequest(data) up to await setOfflineRequests: the list read
\* from the cache with the new request pushed.
storeOfflineRequest(w, data, now) ==
    [w EXCEPT !.store = [pc |-> "set",
                         offlineRequests |->
                             Append(w.requests,
                                    [data |-> data, timestamp |-> now, id |-> now])]]

\* offlineRequests.filter((request, index) => !syncResults[index].success)
RECURSIVE remainingRequests(_, _, _)
remainingRequests(offlineRequests, syncResults, index) ==
    IF index > Len(offlineRequests) THEN <<>>
    ELSE (IF syncResults[index] THEN <<>> ELSE <<offlineRequests[index]>>)
         \o remainingRequests(offlineRequests, syncResults, index + 1)

InitClient ==
    /\ tracker = NoTracker
    /\ worker = NoWorker

\* A table the program itself can have left behind in an earlier run.
SeedRow ==
    [id |-> 1, date |-> Day1, emoji |-> "sad", note |-> NullNote,
     created_at |-> 1, updated_at |-> 1]

Init ==
    /\ zone \in {-1, 0}
    /\ \/ rows = {} /\ lastId = 0
       \/ zone = 0 /\ rows = {SeedRow} /\ lastId = 1
    /\ call = [c \in Calls |-> NoCall]
    /\ removed = [c \in Calls |-> NoEntry]
    /\ createdSince = [c \in Calls |-> FALSE]
    /\ deletedSince = [c \in Calls |-> FALSE]
    /\ createdBetween = [c \in Calls |-> FALSE]
    /\ InitHost /\ InitClient

\* Calls are numbered in the order they are made, and the clock (new Date())
\* reads c during call c.
Now(c) == c

\* Calls are numbered in the order they are made.
CanStart(c) ==
    /\ call[c].op = "none"
    /\ c > 1 => call[c - 1].op # "none"

\* The history variables after call c has done a store operation on date d
\* that inserted a row (ins) or deleted one (del).
Touch(c, d, ins, del) ==
    /\ createdSince' = [k \in Calls |->
          IF k = c THEN FALSE
          ELSE createdSince[k] \/ (ins /\ call[k].op # "none" /\ call[k].date = d)]
    /\ deletedSince' = [k \in Calls |->
          IF k = c THEN FALSE
          ELSE deletedSince[k] \/ (del /\ call[k].op # "none" /\ call[k].date = d)]

(***************************************************************************)
(* Actions                                                                 *)
(***************************************************************************)

\* createMoodEntry(moodData): construction, validation and the lookup.
CreateCall(c, moodData) ==
    /\ CanStart(c)
    /\ LET k0 == [NoCall EXCEPT !.op = "create", !.date = moodData.date]
           k1 == createConstruct(k0, moodData, Now(c), Now(c), zone)
       IN IF k1.pc = "done"
          THEN /\ call' = [call EXCEPT ![c] = k1]
               /\ UNCHANGED <<createdSince, deletedSince>>
          ELSE /\ call' = [call EXCEPT ![c] = createLookup(k1, rows, zone)]
               /\ Touch(c, moodData.date, FALSE, FALSE)
    /\ UNCHANGED <<zone, rows, lastId, removed, createdBetween>>
    /\ UNCHANGED <<hostVars, clientVars>>

\* The lookup of the createMoodEntry that updateMoodEntry calls.
CreateLookup(c) ==
    /\ call[c].pc = "lookup"
    /\ call' = [call EXCEPT ![c] = createLookup(call[c], rows, zone)]
    /\ Touch(c, call[c].date, FALSE, FALSE)
    /\ UNCHANGED <<zone, rows, lastId, removed, createdBetween>>
    /\ UNCHANGED <<hostVars, clientVars>>

\* The INSERT of createMoodEntry and what follows it.
CreateInsert(c) ==
    /\ call[c].pc = "insert"
    /\ LET r == DbInsert(rows, lastId, call[c].ent)
       IN /\ rows' = r.rows
          /\ lastId' = r.lastId
          /\ call' = [call EXCEPT ![c] = createInsert(call[c], r)]
          /\ Touch(c, call[c].date, r.ok, FALSE)
    /\ UNCHANGED <<zone, removed, createdBetween>>
    /\ UNCHANGED <<hostVars, clientVars>>

\* The INSERT of createMoodEntry rejected by the store with error e, and the
\* catch block that follows.
CreateInsertFails(c, e) ==
    /\ call[c].pc = "insert"
    /\ call' = [call EXCEPT ![c] = createInsert(call[c], DbInsertFails(rows, lastId, e))]
    /\ Touch(c, call[c].date, FALSE, FALSE)
    /\ UNCHANGED <<zone, rows, lastId, removed, createdBetween>>
    /\ UNCHANGED <<hostVars, clientVars>>

\* MoodEntry.validateInput(data), called by the boundary check
\* validateMoodEntry: no store operation, the result at once.
ValidateInputCall(c, data) ==
    /\ CanStart(c)
    /\ LET v == validateInput(data, zone)
       IN call' = [call EXCEPT ![c] =
              [NoCall EXCEPT !.op = "validateInput", !.data = data, !.pc = "done",
                  !.result = [Pending EXCEPT
                      !.kind = IF v.isValid THEN "valid" ELSE "invalid",
                      !.message = [NoMessage EXCEPT !.errors = v.errors]]]]
    /\ UNCHANGED <<zone, rows, lastId, removed, createdSince, deletedSince, createdBetween>>
    /\ UNCHANGED <<hostVars, clientVars>>

\* POST /api/moods with body: validateMoodEntry, and for a body it lets
\* through createMoodEntry up to the answer of its lookup.
PostCall(c, body) ==
    /\ CanStart(c)
    /\ LET k0 == [NoCall EXCEPT !.op = "post", !.date = body.date, !.data = body]
           v == validateInput(body, zone)
           k1 == createConstruct(k0, body, Now(c), Now(c), zone)
       IN IF ~v.isValid
          THEN /\ call' = [call EXCEPT ![c] = respondInvalid(k0, v)]
               /\ UNCHANGED <<createdSince, deletedSince>>
          ELSE IF k1.pc = "done"
          THEN /\ call' = [call EXCEPT ![c] = k1]
               /\ UNCHANGED <<createdSince, deletedSince>>
          ELSE /\ call' = [call EXCEPT ![c] = createLookup(k1, rows, zone)]
               /\ Touch(c, body.date, FALSE, FALSE)
    /\ UNCHANGED <<zone, rows, lastId, removed, createdBetween>>
    /\ UNCHANGED <<hostVars, clientVars>>

\* The route goes on after createMoodEntry: the timer has measured duration.
Respond(c, duration) ==
    /\ call[c].op = "post" /\ call[c].pc = "done"
    /\ call[c].response = NoResponse
    /\ call' = [call EXCEPT ![c] = respond(call[c], duration)]
    /\ UNCHANGED <<zone, rows, lastId, removed, createdSince, deletedSince, createdBetween>>
    /\ UNCHANGED <<hostVars, clientVars>>

\* deleteMoodEntryByDate(date): the lookup.
DeleteCall(c, date) ==
    /\ CanStart(c)
    /\ call' = [call EXCEPT ![c] =
          deleteLookup([NoCall EXCEPT !.op = "delete", !.date = date], rows, zone)]
    /\ Touch(c, date, FALSE, FALSE)
    /\ UNCHANGED <<zone, rows, lastId, removed, createdBetween>>
    /\ UNCHANGED <<hostVars, clientVars>>

\* updateMoodEntry(date, moodData): the lookup of its deleteMoodEntryByDate.
UpdateCall(c, date, moodData) ==
    /\ CanStart(c)
    /\ call' = [call EXCEPT ![c] =
          deleteLookup([NoCall EXCEPT !.op = "update", !.date = date,
                                      !.data = moodData], rows, zone)]
    /\ Touch(c, date, FALSE, FALSE)
    /\ UNCHANGED <<zone, rows, lastId, removed, createdBetween>>
    /\ UNCHANGED <<hostVars, clientVars>>

\* The DELETE of deleteMoodEntryByDate and what follows it; in
\* updateMoodEntry, createMoodEntry({ ...moodData, date }) follows.
DeleteRun(c) ==
    /\ call[c].pc = "run"
    /\ LET r == DbDelete(rows, call[c].date)
           k1 == deleteRun(call[c], r.changes)
       IN /\ rows' = r.rows
          /\ removed' = [removed EXCEPT ![c] = DbGet(rows, call[c].date)]
          /\ createdBetween' = [createdBetween EXCEPT ![c] = createdSince[c]]
          /\ Touch(c, call[c].date, FALSE, r.changes > 0)
          /\ IF call[c].op = "update" /\ k1.deleted.kind = "entry"
             THEN call' = [call EXCEPT ![c] =
                     createConstruct([k1 EXCEPT !.result = Pending],
                                     [call[c].data EXCEPT !.date = call[c].date],
                                     Now(c), Now(c), zone)]
             ELSE call' = [call EXCEPT ![c] = k1]
    /\ UNCHANGED <<zone, lastId>>
    /\ UNCHANGED <<hostVars, clientVars>>

\* getMoodEntries(options): the checks of the options and the count query.
ListCall(c, options) ==
    /\ CanStart(c)
    /\ LET k1 == listCheck([NoCall EXCEPT !.op = "list", !.options = options])
       IN call' = [call EXCEPT ![c] =
              IF k1.pc = "done" THEN k1
              ELSE listCount(k1, DbCount(rows, options.from, options.to))]
    /\ UNCHANGED <<zone, rows, lastId, removed, createdSince, deletedSince, createdBetween>>
    /\ UNCHANGED <<hostVars, clientVars>>

\* The page query of getMoodEntries and what follows it.
ListPage(c) ==
    /\ call[c].pc = "page"
    /\ LET o == call[c].options
       IN call' = [call EXCEPT ![c] =
              listPage(call[c],
                       DbPage(rows, o.from, o.to, o.limit, Offset(o.page, o.limit)),
                       zone)]
    /\ UNCHANGED <<zone, rows, lastId, removed, createdSince, deletedSince, createdBetween>>
    /\ UNCHANGED <<hostVars, clientVars>>

\* validateDateParam on the :date of a GET or DELETE /api/moods/:date.
ValidateDateParam(c, date) ==
    /\ CanStart(c)
    /\ LET v == validateDateParam(date, zone)
       IN call' = [call EXCEPT ![c] =
              [NoCall EXCEPT !.op = "validateDateParam", !.date = date, !.pc = "done",
                  !.result = [Pending EXCEPT !.kind = IF v.next THEN "valid" ELSE "invalid"],
                  !.response = [NoResponse EXCEPT !.status = v.status,
                                                  !.message = v.error]]]
    /\ UNCHANGED <<zone, rows, lastId, removed, createdSince, deletedSince, createdBetween>>
    /\ UNCHANGED <<hostVars, clientVars>>

\* A request enters route: ensureDbInitialized() tests the flag and, with
\* the flag unset, db.initialize() starts, whose connect() opens a
\* connection.
EnsureDbInitialized(c, route) ==
    /\ request[c].pc = "none"
    /\ c > 1 => request[c - 1].pc # "none"
    /\ request' = [request EXCEPT ![c] =
          ensureDbInitialized([NoRequest EXCEPT !.route = route], dbInitialized)]
    /\ connections' = IF ~dbInitialized THEN connections + 1 ELSE connections
    /\ UNCHANGED <<dbInitialized, repoVars, clientVars>>

\* await db.initialize() returns in request c: dbInitialized = true.
Initialized(c) ==
    /\ request[c].pc = "initialize"
    /\ dbInitialized' = TRUE
    /\ request' = [request EXCEPT ![c].pc = "handler"]
    /\ UNCHANGED <<connections, repoVars, clientVars>>

\* The page saves a mood offline.
SaveMoodOffline(data) ==
    /\ tracker.clock < MaxOffline
    /\ tracker' = [saveMoodOffline(tracker, data, tracker.clock)
                      EXCEPT !.clock = tracker.clock + 1]
    /\ UNCHANGED <<repoVars, hostVars, worker>>

\* syncOfflineEntries() starts with a list that is not empty.
SyncOfflineEntries ==
    /\ tracker.pc = "idle"
    /\ Len(tracker.offlineEntries) # 0
    /\ tracker' = syncOfflineEntries(tracker)
    /\ UNCHANGED <<repoVars, hostVars, worker>>

\* The submitMoodEntry of entry i returns (success) or throws.
SubmitSettles(i, success) ==
    /\ tracker.pc = "allSettled"
    /\ i \in 1..Len(tracker.results)
    /\ tracker.results[i] = "pending"
    /\ tracker' = [tracker EXCEPT !.results[i] = IF success THEN "success" ELSE "failure"]
    /\ UNCHANGED <<repoVars, hostVars, worker>>

\* Promise.allSettled resolves and syncOfflineEntries runs to its end.
SyncSettled ==
    /\ tracker.pc = "allSettled"
    /\ \A i \in 1..Len(tracker.results) : tracker.results[i] # "pending"
    /\ tracker' = syncSettled(tracker)
    /\ UNCHANGED <<repoVars, hostVars, worker>>

\* handleApiPost could not reach the network: storeOfflineRequest(data)
\* reads the stored list and pushes the request.
StoreOfflineRequest(data) ==
    /\ worker.store.pc = "idle"
    /\ worker.clock < MaxOffline
    /\ worker' = [storeOfflineRequest(worker, data, worker.clock)
                     EXCEPT !.clock = worker.clock + 1]
    /\ UNCHANGED <<repoVars, hostVars, tracker>>

\* setOfflineRequests(offlineRequests) of storeOfflineRequest.
SetOfflineRequests ==
    /\ worker.store.pc = "set"
    /\ LET list == worker.store.offlineRequests
       IN worker' = [worker EXCEPT !.requests = list,
                                   !.stored = worker.stored \cup {list[Len(list)]},
                                   !.store = NoWorker.store]
    /\ UNCHANGED <<repoVars, hostVars, tracker>>

\* syncOfflineMoodEntries() starts and reads a list that is not empty.
SyncOfflineMoodEntries ==
    /\ worker.sync.pc = "idle"
    /\ Len(worker.requests) # 0
    /\ worker' = [worker EXCEPT !.sync = [pc |-> "fetch",
                                           offlineRequests |-> worker.requests,
                                           syncResults |-> <<>>]]
    /\ UNCHANGED <<repoVars, hostVars, tracker>>

\* The fetch of the next request of the loop is answered: response.ok
\* (success), or an HTTP error or an exception.
SyncFetch(success) ==
    /\ worker.sync.pc = "fetch"
    /\ Len(worker.sync.syncResults) < Len(worker.sync.offlineRequests)
    /\ LET r == worker.sync.offlineRequests[Len(worker.sync.syncResults) + 1]
       IN worker' = [worker EXCEPT
              !.sync.syncResults = Append(worker.sync.syncResults, success),
              !.posted = IF success THEN worker.posted \cup {r} ELSE worker.posted]
    /\ UNCHANGED <<repoVars, hostVars, tracker>>

\* The loop is over: setOfflineRequests(remainingRequests).
SyncSetRemaining ==
    /\ worker.sync.pc = "fetch"
    /\ Len(worker.sync.syncResults) = Len(worker.sync.offlineRequests)
    /\ worker' = [worker EXCEPT
          !.requests = remainingRequests(worker.sync.offlineRequests,
                                         worker.sync.syncResults, 1),
          !.sync = NoWorker.sync]
    /\ UNCHANGED <<repoVars, hostVars, tracker>>

Next ==
    \/ \E c \in Calls, moodData \in Candidates : CreateCall(c, moodData)
    \/ \E c \in Calls : CreateLookup(c)
    \/ \E c \in Calls : CreateInsert(c)
    \/ \E c \in Calls, date \in Dates : DeleteCall(c, date)
    \/ \E c \in Calls, date \in Dates, moodData \in UpdateData :
          UpdateCall(c, date, moodData)
    \/ \E c \in Calls : DeleteRun(c)

Spec == Init /\ [][Next]_vars


(***************************************************************************)
(* Properties                                                              *)
(***************************************************************************)

RowsOf(d) == {r \in rows : r.date = d}

\* The candidate createMoodEntry was given in call c: updateMoodEntry passes
\* { ...moodData, date }.
Given(k) == IF k.op = "update" THEN [k.data EXCEPT !.date = k.date] ELSE k.data

IsValid(moodData) ==
    validate(MoodEntry(0, moodData.date, moodData.emoji, moodData.note, 0, 0, 1, 1),
             zone) = <<>>

\* C1: in every reachable state the table holds at most one entry per date.
C1_OneEntryPerDate ==
    \A r1, r2 \in rows : r1.date = r2.date => r1 = r2

\* An updateMoodEntry and a createMoodEntry on one date have both reached
\* their INSERT.
C1_Witness ==
    \E c1, c2 \in Calls :
        /\ call[c1].op = "update" /\ call[c2].op = "create"
        /\ call[c1].date = call[c2].date
        /\ call[c1].pc = "done" /\ call[c2].pc = "done"
        /\ call[c1].ops = 2 /\ call[c2].ops = 2
        /\ RowsOf(call[c1].date) # {}

\* The finished createMoodEntry calls on date d whose lookup found the date
\* unoccupied (they went on to their INSERT), with no delete of d since.
Racers(d) ==
    {c \in Calls : /\ call[c].op \in {"create", "update"}
                   /\ call[c].pc = "done" /\ call[c].ops = 2
                   /\ call[c].ent.date = d
                   /\ ~deletedSince[c]}

\* C2: of the createMoodEntry calls that found one date unoccupied, exactly
\* one succeeds, every other one fails with DUPLICATE_DATE, and exactly one
\* row of that date is in the table.
C2_OneWinner ==
    \A d \in Dates :
        Racers(d) # {} =>
            /\ Cardinality({c \in Racers(d) : call[c].result.kind = "entry"}) = 1
            /\ \A c \in Racers(d) :
                  \/ call[c].result.kind = "entry"
                  \/ call[c].result = DuplicateDate(d)
            /\ Cardinality(RowsOf(d)) = 1

\* Two createMoodEntry calls both found the date unoccupied; one of them
\* lost at its INSERT.
C2_Witness ==
    \E c1, c2 \in Calls :
        /\ c1 # c2 /\ {c1, c2} \subseteq Racers(call[c1].ent.date)
        /\ call[c1].op = "create" /\ call[c2].op = "create"
        /\ call[c1].result.kind = "entry"
        /\ call[c2].result.code = "DUPLICATE_DATE"

\* A step in which the createMoodEntry of call c, given a valid candidate,
\* comes to its end.
CreateEnds(c) ==
    /\ call'[c].pc = "done"
    /\ \/ call[c].pc \in {"lookup", "insert"}
       \/ call[c].op = "none" /\ call'[c].op = "create" /\ IsValid(call'[c].data)

Accepted ==
    {c \in Calls : /\ call[c].op \in {"create", "update"}
                   /\ call[c].pc = "done" /\ call[c].result.kind = "entry"
                   /\ ~deletedSince[c]}

\* C4 as stated: getMoodEntryByDate after an accepted createMoodEntry gives
\* the date, emoji and note that were given.
C4_RoundTripIdentical ==
    \A c \in Accepted :
        LET got == getMoodEntryByDate(rows, Given(call[c]).date, zone).entry
        IN /\ got.date = Given(call[c]).date
           /\ got.emoji = Given(call[c]).emoji
           /\ got.note = Given(call[c]).note

\* C4 amended: getMoodEntryByDate after an accepted createMoodEntry gives the
\* date and emoji that were given, the note that was given when it is null or
\* a non-empty string, and null when the note given was absent or ''; the
\* entry has the id the call returned.
C4_RoundTripNormalized ==
    \A c \in Accepted :
        LET got == getMoodEntryByDate(rows, Given(call[c]).date, zone).entry
            note == Given(call[c]).note
        IN /\ got.date = Given(call[c]).date
           /\ got.emoji = Given(call[c]).emoji
           /\ got.note = IF note.kind = "undefined" \/ (note.kind = "string" /\ note.len = 0)
                         THEN NullNote ELSE note
           /\ got.id = call[c].result.entry.id

\* Accepted calls with an empty note and with a non-empty one.
C4_Witness ==
    \E c1, c2 \in Accepted :
        /\ Given(call[c1]).note = EmptyNote
        /\ Given(call[c2]).note.kind = "string" /\ Given(call[c2]).note.len > 0

\* C5: a createMoodEntry given an invalid candidate ends at once with a
\* ValidationError and has issued no store operation; the table and its
\* sequence are as before the call.
C5_InvalidBeforeStore ==
    [][\A c \in Calls :
          /\ (call[c].op = "none" /\ call'[c].op = "create" /\ ~IsValid(call'[c].data)) =>
                /\ call'[c].pc = "done"
                /\ call'[c].result.kind = "error"
                /\ call'[c].result.name = "ValidationError"
                /\ call'[c].ops = 0
                /\ rows' = rows /\ lastId' = lastId
          /\ (call[c].op = "update" /\ call[c].pc = "run" /\ ~IsValid(Given(call[c]))
                /\ call'[c].deleted.kind = "entry") =>
                /\ call'[c].pc = "done"
                /\ call'[c].result.name = "ValidationError"
                /\ call'[c].ops = 0]_vars

\* A createMoodEntry failed validation while the table held an entry.
C5_Witness ==
    \E c \in Calls :
        /\ call[c].op = "create" /\ call[c].pc = "done"
        /\ ~IsValid(call[c].data)
        /\ call[c].result.name = "ValidationError"
        /\ rows # {}


\* C6: a deleteMoodEntryByDate that succeeds returns the row its DELETE took
\* out of the table (same id, emoji and note), and getMoodEntryByDate gives
\* null afterwards until an entry is created on the date again.
C6_DeleteReturnsRemoved ==
    \A c \in Calls :
        (call[c].op = "delete" /\ call[c].pc = "done" /\ call[c].result.kind = "entry") =>
            /\ call[c].result.entry.id = removed[c].id
            /\ call[c].result.entry.emoji = removed[c].emoji
            /\ call[c].result.entry.note = removed[c].note
            /\ ~createdSince[c] =>
                  getMoodEntryByDate(rows, call[c].date, zone).entry = NoEntry

\* The calls on date d whose deleteMoodEntryByDate has come to its end.
Deleters(d) ==
    {c \in Calls : /\ call[c].op \in {"delete", "update"}
                   /\ call[c].date = d
                   /\ call[c].deleted.kind # "pending"}

\* Of these, the ones whose lookup found the entry with this id.
DeletersOf(d, id) == {c \in Deleters(d) : call[c].existing.id = id}

\* C7: when no entry is created on a date between the lookup and the DELETE
\* of any deleteMoodEntryByDate on it, then of the calls whose lookup found
\* one and the same entry exactly one returns that entry and every other one
\* fails with NOT_FOUND.
C7_OneDeleter ==
    \A d \in Dates, id \in 1..lastId :
        ((\A c \in Deleters(d) : ~createdBetween[c]) /\ DeletersOf(d, id) # {}) =>
            /\ Cardinality({c \in DeletersOf(d, id) :
                               call[c].deleted.kind = "entry"}) = 1
            /\ \A c \in DeletersOf(d, id) :
                  \/ call[c].deleted.kind = "entry" /\ call[c].deleted.entry.id = id
                  \/ call[c].deleted = NotFound(d)

\* Two deleteMoodEntryByDate calls found the same entry; one returned it and
\* the DELETE of the other changed nothing.
C7_Witness ==
    \E c1, c2 \in Calls :
        /\ c1 # c2
        /\ call[c1].op = "delete" /\ call[c2].op = "delete"
        /\ call[c1].date = call[c2].date
        /\ call[c1].existing # NoEntry /\ call[c1].existing = call[c2].existing
        /\ call[c1].result.kind = "entry"
        /\ call[c2].result.code = "NOT_FOUND"
        /\ \A c \in Deleters(call[c1].date) : ~createdBetween[c]

\* A step in which call c is made as deleteMoodEntryByDate(d).
DeleteCalled(c, d) ==
    call[c].op = "none" /\ call'[c].op = "delete" /\ call'[c].date = d

\* C8: a deleteMoodEntryByDate on a date without an entry fails with
\* NOT_FOUND and leaves the table as it was; so does every
\* deleteMoodEntryByDate that is made after one on the same date has
\* succeeded, as long as no entry is created on the date again.
C8_RepeatedDelete ==
    [][\A c \in Calls, d \in Dates :
          DeleteCalled(c, d) =>
              /\ RowsOf(d) = {} =>
                    /\ call'[c].pc = "done"
                    /\ call'[c].result = NotFound(d)
                    /\ rows' = rows /\ lastId' = lastId
              /\ \A p \in Calls :
                    (/\ call[p].op = "delete" /\ call[p].date = d
                     /\ call[p].pc = "done" /\ call[p].result.kind = "entry"
                     /\ ~createdSince[p]) =>
                        /\ call'[c].pc = "done"
                        /\ call'[c].result = NotFound(d)
                        /\ rows' = rows /\ lastId' = lastId]_vars

\* A deleteMoodEntryByDate succeeded and a later one on the same date found
\* nothing, while another date kept its entry.
C8_Witness ==
    \E p, c \in Calls :
        /\ p < c
        /\ call[p].op = "delete" /\ call[c].op = "delete"
        /\ call[p].date = call[c].date
        /\ call[p].result.kind = "entry" /\ ~createdSince[p]
        /\ call[c].existing = NoEntry
        /\ call[c].result = NotFound(call[c].date)


\* The calls that have failed with a validation, duplicate-date or not-found
\* error.
Failed ==
    {c \in Calls : /\ call[c].pc = "done" /\ call[c].result.kind = "error"
                   /\ \/ call[c].result.name = "ValidationError"
                      \/ call[c].result.code \in {"DUPLICATE_DATE", "NOT_FOUND"}}

\* C13: a createMoodEntry, deleteMoodEntryByDate or updateMoodEntry that
\* fails with a validation, duplicate-date or not-found error has changed
\* nothing in the table: its DELETE has taken no row out and its INSERT has
\* put no row in.
C13_NoPartialWrites ==
    \A c \in Failed : removed[c] = NoEntry /\ call[c].ent.id <= 0

\* C14: in every step the entry of a date either stays exactly as it is
\* (same id, emoji, note and timestamps), or appears where there was none,
\* put there by a createMoodEntry that succeeds in this step, or disappears,
\* taken out by a deleteMoodEntryByDate (direct or inside updateMoodEntry)
\* that succeeds in this step; no step replaces a present entry by another.
C14_AbsentPresentOnly ==
    [][\A d \in Dates :
          /\ (RowsOf(d) # {} /\ RowsOf(d)' # {}) => RowsOf(d)' = RowsOf(d)
          /\ (RowsOf(d) = {} /\ RowsOf(d)' # {}) =>
                \E c \in Calls :
                    /\ call[c].pc = "insert" /\ call'[c].pc = "done"
                    /\ call'[c].result.kind = "entry"
                    /\ RowsOf(d)' = {call'[c].result.entry}
          /\ (RowsOf(d) # {} /\ RowsOf(d)' = {}) =>
                \E c \in Calls :
                    /\ call[c].pc = "run" /\ call[c].date = d
                    /\ call'[c].deleted.kind = "entry"]_vars

\* An updateMoodEntry has replaced the entry of a date by one with another
\* emoji: its DELETE took the old entry out and its INSERT put the new one in.
C14_Witness ==
    \E c \in Calls :
        /\ call[c].op = "update" /\ call[c].pc = "done"
        /\ call[c].result.kind = "entry"
        /\ removed[c] # NoEntry
        /\ removed[c].emoji # call[c].result.entry.emoji
        /\ call[c].result.entry \in rows

\* The calls whose INSERT was given an id.
Assigned == {c \in Calls : call[c].ent.id > 0}

\* C15: the ids createMoodEntry has been given are all different, and an id
\* it was given belongs to no other entry that is or was in the table, also
\* not to one that was deleted before.
C15_IdsNeverReused ==
    /\ \A c1, c2 \in Assigned : c1 # c2 => call[c1].ent.id # call[c2].ent.id
    /\ \A c \in Assigned :
          /\ call[c].ent.id <= lastId
          /\ \A r \in rows \cup {removed[k] : k \in Calls} :
                r.id = call[c].ent.id => r = call[c].ent

\* An entry was created on a date whose earlier entry had been deleted, and
\* its id is larger than the id of the deleted entry.
C15_Witness ==
    \E c \in Assigned, k \in Calls :
        /\ removed[k] # NoEntry
        /\ removed[k].date = call[c].ent.date
        /\ removed[k].id < call[c].ent.id
        /\ call[c].ent \in rows
        /\ ~(\E r \in rows : r.id = removed[k].id)

\* The entries of table S of every date but d.
RowsBut(S, d) == {r \in S : r.date # d}

\* C20: a step of a createMoodEntry, deleteMoodEntryByDate or
\* updateMoodEntry on date d, whether the call succeeds or fails, leaves the
\* entries of every other date as they are: none is added, removed or
\* changed in id, emoji, note or timestamps.
C20_OtherDatesUnchanged ==
    [][\A c \in Calls :
          call'[c] # call[c] =>
              RowsBut(rows', call'[c].date) = RowsBut(rows, call'[c].date)]_vars

\* A deleteMoodEntryByDate and a createMoodEntry on one date have changed
\* the table while the entry of another date is still in it.
C20_Witness ==
    \E c1, c2 \in Calls :
        /\ call[c1].op = "delete" /\ removed[c1] # NoEntry
        /\ call[c2].op = "create" /\ call[c2].result.kind = "entry"
        /\ call[c2].date = call[c1].date
        /\ \E r \in rows : r.date # call[c1].date

(***************************************************************************)
(* getMoodEntries on a table that no call changes                          *)
(***************************************************************************)

\* The entries a table is drawn from: one per date, with ids in the order
\* the entries were created, which is not the order of the dates.
MaxEntries == 4

Pool ==
    {[id |-> 3, date |-> YMD(2025, 9, 20), emoji |-> "sad", note |-> NullNote,
      created_at |-> 3, updated_at |-> 3],
     [id |-> 1, date |-> YMD(2025, 9, 30), emoji |-> "happy", note |-> StrNote(1, "a"),
      created_at |-> 1, updated_at |-> 1],
     [id |-> 4, date |-> YMD(2025, 10, 1), emoji |-> "loved", note |-> NullNote,
      created_at |-> 4, updated_at |-> 4],
     [id |-> 2, date |-> YMD(2025, 10, 2), emoji |-> "neutral", note |-> NullNote,
      created_at |-> 2, updated_at |-> 2],
     [id |-> 5, date |-> YMD(2024, 12, 31), emoji |-> "very_happy", note |-> NullNote,
      created_at |-> 5, updated_at |-> 5]}

ListLimits == {0, 1, 2, 3, DefaultLimit, MaxLimit, MaxLimit + 1}
ListPages == {0, 1, 2, 3}
ListDates == {MissingDate, YMD(2025, 9, 25), YMD(2025, 9, 30), YMD(2025, 10, 1)}
ListOptions == [limit : ListLimits, page : ListPages, from : ListDates, to : ListDates]

InitList ==
    /\ zone \in {-1, 0}
    /\ rows \in SUBSET Pool
    /\ Cardinality(rows) <= MaxEntries
    /\ zone = -1 => rows = {}
    /\ lastId = 5
    /\ call = [c \in Calls |-> NoCall]
    /\ removed = [c \in Calls |-> NoEntry]
    /\ createdSince = [c \in Calls |-> FALSE]
    /\ deletedSince = [c \in Calls |-> FALSE]
    /\ createdBetween = [c \in Calls |-> FALSE]
    /\ InitHost /\ InitClient

NextList ==
    \/ \E options \in ListOptions : ListCall(1, options)
    \/ ListPage(1)

SpecList == InitList /\ [][NextList]_vars


\* The getMoodEntries calls that have returned a page.
Listed == {c \in Calls : call[c].op = "list" /\ call[c].result.kind = "page"}

\* The place of a stored entry when the entries are counted from the latest
\* date: 1 + the number of entries with a later date.
Rank(e) == 1 + Cardinality({r \in rows : DateLess(e.date, r.date)})

Ids(seq) == {seq[i].id : i \in 1..Len(seq)}

\* C9: without a filter, the page getMoodEntries returns is in strictly
\* descending order of date, holds exactly the entries of rank
\* (page-1)*limit+1 .. page*limit in that order, and shares no entry with
\* the page that follows it.
C9_PageIsRankedSlice ==
    \A c \in Listed :
        LET o == call[c].options
            moods == call[c].result.page.moods
            first == (o.page - 1) * o.limit + 1
            last == o.page * o.limit
            after == DbPage(rows, o.from, o.to, o.limit, Offset(o.page + 1, o.limit))
        IN (o.from = MissingDate /\ o.to = MissingDate) =>
              /\ \A i, j \in 1..Len(moods) :
                    i < j => DateLess(moods[j].date, moods[i].date)
              /\ \A i \in 1..Len(moods) :
                    /\ moods[i] \in rows
                    /\ Rank(moods[i]) = first + i - 1
              /\ Len(moods) = Cardinality({r \in rows : Rank(r) \in first..last})
              /\ Ids(moods) \cap Ids(after) = {}

\* The second page of two entries was returned from a table of four: the
\* two entries of the earliest dates.
C9_Witness ==
    \E c \in Listed :
        /\ call[c].options.page = 2 /\ call[c].options.limit = 2
        /\ call[c].options.from = MissingDate /\ call[c].options.to = MissingDate
        /\ Len(call[c].result.page.moods) = 2
        /\ Cardinality(rows) = 4

\* The stored entries the filter of options o lets through.
InRange(o) ==
    {r \in rows : /\ o.from = MissingDate \/ r.date = o.from \/ DateLess(o.from, r.date)
                  /\ o.to = MissingDate \/ r.date = o.to \/ DateLess(r.date, o.to)}

ValidOptions(o) ==
    /\ o.limit >= 1 /\ o.limit <= 100 /\ o.page >= 1
    /\ ~(o.from # MissingDate /\ o.to # MissingDate /\ DateLess(o.to, o.from))

\* C10: for valid options getMoodEntries returns a page and no error; its
\* total is the number of stored entries in the from/to range, its
\* totalPages the least n with n * limit >= total, its page and limit the
\* ones asked for, and its moods are empty when the page lies beyond the
\* entries.
C10_TotalAndTotalPages ==
    \A c \in Calls :
        (call[c].op = "list" /\ call[c].pc = "done" /\ ValidOptions(call[c].options)) =>
            LET o == call[c].options
                res == call[c].result.page
            IN /\ call[c].result.kind = "page"
               /\ res.total = Cardinality(InRange(o))
               /\ res.totalPages * o.limit >= res.total
               /\ (res.totalPages - 1) * o.limit < res.total
               /\ res.totalPages >= 0
               /\ res.page = o.page /\ res.limit = o.limit
               /\ (o.page - 1) * o.limit >= res.total => res.moods = <<>>

\* A page beyond the entries of a filtered list was returned: the filter
\* leaves some entries out and the total is not a multiple of the limit.
C10_Witness ==
    \E c \in Listed :
        LET o == call[c].options
            res == call[c].result.page
        IN /\ o.from # MissingDate
           /\ res.total > 0 /\ res.total < Cardinality(rows)
           /\ res.total % o.limit # 0
           /\ (o.page - 1) * o.limit >= res.total
           /\ res.moods = <<>>

\* The place of entry e among the entries of S, counted from the latest date.
RankIn(e, S) == 1 + Cardinality({r \in S : DateLess(e.date, r.date)})

Reversed(o) == o.from # MissingDate /\ o.to # MissingDate /\ DateLess(o.to, o.from)

\* C11: getMoodEntries filters by date inclusively: the page it returns is
\* taken from exactly the stored entries with date >= from (when from is
\* given) and date <= to (when to is given), both bounds included, and its
\* total counts exactly these; when both are given and from > to the call
\* fails with an error and returns no page.
C11_InclusiveFilter ==
    \A c \in Calls :
        (call[c].op = "list" /\ call[c].pc = "done") =>
            LET o == call[c].options
                res == call[c].result
                first == (o.page - 1) * o.limit + 1
                last == o.page * o.limit
            IN /\ Reversed(o) =>
                     /\ res.kind = "error" /\ res.page = NoPage
                     /\ (o.limit \in 1..100 /\ o.page >= 1) =>
                            res.message.text = "From date cannot be after to date"
               /\ res.kind = "page" =>
                     /\ res.page.total = Cardinality(InRange(o))
                     /\ Ids(res.page.moods) =
                           {r.id : r \in {q \in InRange(o) :
                                              RankIn(q, InRange(o)) \in first..last}}

\* A list from one stored date to another returned the entries of both
\* bounds and left out an earlier and a later entry.
C11_Witness ==
    \E c \in Listed :
        LET o == call[c].options
            moods == call[c].result.page.moods
        IN /\ o.from # MissingDate /\ o.to # MissingDate /\ DateLess(o.from, o.to)
           /\ \E i, j \in 1..Len(moods) : moods[i].date = o.from /\ moods[j].date = o.to
           /\ \E r \in rows : DateLess(r.date, o.from)
           /\ \E r \in rows : DateLess(o.to, r.date)

\* C12: getMoodEntries with limit < 1, limit > 100 or page < 1 fails with an
\* error and returns no page; the options it was given are not replaced.
C12_LimitAndPageRejected ==
    \A c \in Calls :
        (call[c].op = "list" /\ call[c].pc = "done") =>
            LET o == call[c].options
                res == call[c].result
            IN /\ (o.limit < 1 \/ o.limit > 100) =>
                     /\ res.kind = "error" /\ res.page = NoPage
                     /\ res.message.text = "Limit must be between 1 and 100"
               /\ (o.limit \in 1..100 /\ o.page < 1) =>
                     /\ res.kind = "error" /\ res.page = NoPage
                     /\ res.message.text = "Page must be 1 or greater"
               /\ res.kind = "page" =>
                     res.page.limit = o.limit /\ res.page.page = o.page

\* A list with limit 101 over a table with entries failed.
C12_Witness ==
    \E c \in Calls :
        /\ call[c].op = "list" /\ call[c].pc = "done"
        /\ call[c].options.limit = MaxLimit + 1 /\ call[c].options.page >= 1
        /\ rows # {}
        /\ call[c].result.kind = "error"

(***************************************************************************)
(* createMoodEntry on the inputs of validation                             *)
(***************************************************************************)

\* The dates, emojis and notes of the validation tests, and what lies next
\* to them.
DateInputs ==
    {MissingDate, MalformedDate, Day1,
     YMD(2025, 2, 30), YMD(2025, 13, 1), YMD(2025, 0, 15), YMD(2025, 6, 32),
     YMD(2025, 4, 31), YMD(2025, 1, 0), YMD(2025, 12, 31), YMD(2025, 1, 1),
     YMD(2000, 2, 29), YMD(2001, 2, 28), YMD(2001, 2, 29), YMD(1900, 2, 29),
     YMD(2024, 2, 29), YMD(2024, 2, 30), YMD(2099, 12, 31)}

EmojiInputs == {"", "other", "sad", "neutral", "happy", "very_happy", "loved"}

NoteInputs ==
    {UndefinedNote, NullNote, EmptyNote, StrNote(1, "a"), StrNote(250, "a"),
     StrNote(499, "a"), StrNote(500, "a"), StrNote(501, "a"),
     SurrogateNote(250, "m"), SurrogateNote(251, "m"), SurrogateNote(501, "m")}

CreateInputs == [date : DateInputs, emoji : EmojiInputs, note : NoteInputs]

\* The current day, as the clock of the process reads it.
Today == YMD(2025, 9, 22)

InitCreate ==
    /\ zone \in {-1, 0}
    /\ \/ rows = {} /\ lastId = 0
       \/ zone = 0 /\ rows = {SeedRow} /\ lastId = 1
    /\ call = [c \in Calls |-> NoCall]
    /\ removed = [c \in Calls |-> NoEntry]
    /\ createdSince = [c \in Calls |-> FALSE]
    /\ deletedSince = [c \in Calls |-> FALSE]
    /\ createdBetween = [c \in Calls |-> FALSE]
    /\ InitHost /\ InitClient

NextCreate ==
    \/ \E moodData \in CreateInputs : CreateCall(1, moodData)
    \/ CreateInsert(1)

SpecCreate == InitCreate /\ [][NextCreate]_vars

\* The days of month m of year y in the Gregorian calendar, 0 when m is no
\* month.
MonthLength(y, m) ==
    CASE m \in {1, 3, 5, 7, 8, 10, 12} -> 31
      [] m \in {4, 6, 9, 11} -> 30
      [] m = 2 -> IF (y % 4 = 0 /\ y % 100 # 0) \/ y % 400 = 0 THEN 29 ELSE 28
      [] OTHER -> 0

\* ds has the form YYYY-MM-DD and names a day of the calendar.
RealDate(ds) == ds.kind = "ymd" /\ ds.m \in 1..12 /\ ds.d \in 1..MonthLength(ds.y, ds.m)

\* C16: every entry in the table has an emoji of the five allowed ones, a
\* note that is null or a string of at most 500 characters (and at most 500
\* UTF-16 code units), and a date in YYYY-MM-DD form that names a real day
\* of the calendar.
C16_PersistedFields ==
    \A r \in rows :
        /\ r.emoji \in {"sad", "neutral", "happy", "very_happy", "loved"}
        /\ \/ r.note = NullNote
           \/ r.note.kind = "string" /\ r.note.chars <= 500 /\ r.note.len <= 500
        /\ RealDate(r.date)

\* An entry of 29 February 2000 with a note of exactly 500 characters is in
\* the table.
C16_Witness ==
    \E r \in rows :
        /\ r.date = YMD(2000, 2, 29)
        /\ r.note.kind = "string" /\ r.note.chars = 500

\* The createMoodEntry of call c was refused for its date.
DateRejected(c) ==
    /\ call[c].pc = "done" /\ call[c].result.name = "ValidationError"
    /\ Includes(call[c].result.message.errors, "date must be in YYYY-MM-DD format")

\* C17: createMoodEntry refuses a date string for its date exactly when the
\* string does not have the form YYYY-MM-DD or names no real day of the
\* calendar.
C17_AcceptedIffRealDate ==
    \A c \in Calls :
        (call[c].op = "create" /\ call[c].data.date.kind # "missing") =>
            (DateRejected(c) <=> ~RealDate(call[c].data.date))

\* C18: with a date that validation accepts and an allowed emoji, a
\* createMoodEntry on an unoccupied date with no note or a note of at most
\* 500 characters returns the entry and the entry is in the table; with a
\* note of more than 500 characters it fails with the message of the
\* 500-character limit, before any store operation, and no row is added.
C18_NoteBoundary ==
    \A c \in Calls :
        (/\ call[c].op = "create" /\ call[c].pc = "done"
         /\ isValidDate(call[c].data.date, zone)
         /\ Includes(allowedEmojis, call[c].data.emoji)) =>
            LET note == call[c].data.note
            IN /\ (note.chars <= 500 /\ call[c].found = NoEntry) =>
                     /\ call[c].result.kind = "entry"
                     /\ call[c].result.entry \in rows
               /\ note.chars > 500 =>
                     /\ call[c].result.name = "ValidationError"
                     /\ call[c].result.message.errors =
                           <<"note must be 500 characters or less">>
                     /\ call[c].ops = 0 /\ rows \subseteq {SeedRow}

\* C25: a createMoodEntry whose date is later than the current day fails
\* with a ValidationError, and no entry of that date is in the table.
C25_FutureDateRejected ==
    \A c \in Calls :
        (/\ call[c].op = "create" /\ call[c].pc = "done"
         /\ call[c].data.date.kind = "ymd" /\ DateLess(Today, call[c].data.date)) =>
            /\ call[c].result.name = "ValidationError"
            /\ \A r \in rows : r.date # call[c].data.date

\* C19: a createMoodEntry that succeeds with a note that is absent or the
\* empty string returns note null, the row it stored has note null, and
\* getMoodEntryByDate on its date gives that entry with note null.
C19_EmptyNoteIsNull ==
    \A c \in Calls :
        (/\ call[c].op = "create" /\ call[c].result.kind = "entry"
         /\ call[c].data.note \in {UndefinedNote, EmptyNote}) =>
            LET got == getMoodEntryByDate(rows, call[c].data.date, zone).entry
            IN /\ call[c].result.entry.note = NullNote
               /\ \A r \in rows : r.id = call[c].result.entry.id => r.note = NullNote
               /\ got.id = call[c].result.entry.id
               /\ got.note = NullNote

\* A createMoodEntry given the empty string as note has returned an entry.
C19_Witness ==
    \E c \in Calls :
        /\ call[c].op = "create" /\ call[c].result.kind = "entry"
        /\ call[c].data.note = EmptyNote
        /\ call[c].result.entry \in rows

(***************************************************************************)
(* getStatistics on a table that no call changes                           *)
(***************************************************************************)

\* The window sizes asked for and the days the clock can read.
StatsDays == {0, 1, 2, 12, 30, 31}
StatsTodays == {YMD(2025, 10, 2), YMD(2025, 10, 1), YMD(2025, 10, 30), YMD(2025, 1, 1)}

\* getStatistics({ days }): the cutoff, the query and the sums.
StatsCall(c, days, today) ==
    /\ CanStart(c)
    /\ call' = [call EXCEPT ![c] =
          statsResult([NoCall EXCEPT !.op = "stats", !.days = days, !.today = today],
                      DbStats(rows, MinusDays(today, days)))]
    /\ UNCHANGED <<zone, rows, lastId, removed, createdSince, deletedSince, createdBetween>>
    /\ UNCHANGED <<hostVars, clientVars>>

\* The entries a table is drawn from: three of one emoji, two of them created
\* on one day, and two emojis that never occur.
StatsPool ==
    {[id |-> 3, date |-> YMD(2025, 9, 20), emoji |-> "sad", note |-> NullNote,
      created_at |-> 3, updated_at |-> 3],
     [id |-> 1, date |-> YMD(2025, 9, 30), emoji |-> "happy", note |-> StrNote(1, "a"),
      created_at |-> 1, updated_at |-> 1],
     [id |-> 4, date |-> YMD(2025, 10, 1), emoji |-> "sad", note |-> NullNote,
      created_at |-> 4, updated_at |-> 4],
     [id |-> 2, date |-> YMD(2025, 10, 2), emoji |-> "sad", note |-> NullNote,
      created_at |-> 2, updated_at |-> 2],
     [id |-> 5, date |-> YMD(2024, 12, 31), emoji |-> "loved", note |-> NullNote,
      created_at |-> 5, updated_at |-> 5]}

InitStats ==
    /\ zone \in {-1, 0}
    /\ rows \in SUBSET StatsPool
    /\ Cardinality(rows) <= MaxEntries
    /\ lastId = 5
    /\ call = [c \in Calls |-> NoCall]
    /\ removed = [c \in Calls |-> NoEntry]
    /\ createdSince = [c \in Calls |-> FALSE]
    /\ deletedSince = [c \in Calls |-> FALSE]
    /\ createdBetween = [c \in Calls |-> FALSE]
    /\ InitHost /\ InitClient

NextStats == \E days \in StatsDays, today \in StatsTodays : StatsCall(1, days, today)

SpecStats == InitStats /\ [][NextStats]_vars

\* The number of the day ds names, counted from 1 January 2024.
RECURSIVE MonthStart(_, _)
MonthStart(y, m) == IF m <= 1 THEN 0 ELSE MonthLength(y, m - 1) + MonthStart(y, m - 1)
RECURSIVE YearStart(_)
YearStart(y) == IF y <= 2024 THEN 0 ELSE 337 + MonthLength(y - 1, 2) + YearStart(y - 1)
DayIndex(ds) == YearStart(ds.y) + MonthStart(ds.y, ds.m) + ds.d

\* The stored entries of the window of call c: date >= today - days.
InWindow(c) ==
    {r \in rows : DayIndex(r.date) >= DayIndex(call[c].today) - call[c].days}

StatsDone == {c \in Calls : call[c].op = "stats" /\ call[c].pc = "done"}

\* C21 as stated: totalEntries is the number of stored entries with
\* date >= today - days, distribution has for every one of the five emojis
\* the number of those entries with that emoji, and period is days.
C21_DistributionOfEveryEmoji ==
    \A c \in StatsDone :
        LET res == call[c].result.stats
        IN /\ res.totalEntries = Cardinality(InWindow(c))
           /\ \A i \in 1..Len(allowedEmojis) :
                 <<allowedEmojis[i],
                   Cardinality({r \in InWindow(c) : r.emoji = allowedEmojis[i]})>>
                     \in res.distribution
           /\ res.period = call[c].days

\* C21 amended: totalEntries is the number of stored entries with
\* date >= today - days (today the UTC day of the clock), distribution has
\* exactly one key for every emoji that occurs among those entries, with the
\* number of those entries with that emoji, and no key for an emoji that
\* does not occur; its values sum to totalEntries, and period is days.
C21_DistributionOfOccurring ==
    \A c \in StatsDone :
        LET res == call[c].result.stats
            n(e) == Cardinality({r \in InWindow(c) : r.emoji = e})
        IN /\ res.totalEntries = Cardinality(InWindow(c))
           /\ \A i \in 1..Len(allowedEmojis) :
                 IF n(allowedEmojis[i]) > 0
                 THEN {p \in res.distribution : p[1] = allowedEmojis[i]}
                         = {<<allowedEmojis[i], n(allowedEmojis[i])>>}
                 ELSE {p \in res.distribution : p[1] = allowedEmojis[i]} = {}
           /\ \A p \in res.distribution : Includes(allowedEmojis, p[1])
           /\ res.period = call[c].days

\* Statistics over a window that starts on a stored date: some entries are in
\* it, one is older and its emoji does not occur in the window, and one
\* emoji was counted three times from two rows of the query.
C21_Witness ==
    \E c \in StatsDone :
        LET res == call[c].result.stats
        IN /\ res.totalEntries >= 2
           /\ res.totalEntries < Cardinality(rows)
           /\ \E r \in rows : r.date = MinusDays(call[c].today, call[c].days)
           /\ \E r \in rows : \A p \in res.distribution : p[1] # r.emoji
           /\ \E p \in res.distribution :
                 /\ p[2] = 3
                 /\ Cardinality({g \in res.dailyBreakdown : g.emoji = p[1]}) = 2

(***************************************************************************)
(* createMoodEntry on a store whose INSERT can fail                        *)
(***************************************************************************)

\* Two createMoodEntry calls whose INSERT the store carries out or rejects.
NextFail ==
    \/ \E c \in 1..2, moodData \in Candidates : CreateCall(c, moodData)
    \/ \E c \in 1..2 : CreateInsert(c)
    \/ \E c \in 1..2, e \in StoreFailures : CreateInsertFails(c, e)

SpecFail == Init /\ [][NextFail]_vars

\* The error call c has caught is not the violation of the uniqueness of date.
OtherErrorCaught(k) ==
    /\ k.caught # NoError
    /\ k.caught.message # "UNIQUE constraint failed: mood_entries.date"

\* C22: when the INSERT of a createMoodEntry fails with an error other than
\* the violation of the uniqueness of date, the call ends in that step with
\* the code and message of that error, not with DUPLICATE_DATE, after one
\* lookup and one INSERT, and the table and its sequence are as before.
C22_OtherErrorPropagated ==
    [][\A c \in Calls :
          (call[c].pc = "insert" /\ OtherErrorCaught(call'[c])) =>
              /\ call'[c].pc = "done"
              /\ call'[c].result.kind = "error"
              /\ call'[c].result.code = call'[c].caught.code
              /\ call'[c].result.message.text = call'[c].caught.message
              /\ call'[c].result.code # "DUPLICATE_DATE"
              /\ call'[c].result.suggestion = ""
              /\ call'[c].ops = 2
              /\ rows' = rows /\ lastId' = lastId]_vars

\* Two createMoodEntry calls found the date unoccupied: the INSERT of one
\* failed on a locked database, the INSERT of the other was carried out.
C22_Witness ==
    \E c1, c2 \in Calls :
        /\ call[c1].pc = "done" /\ call[c1].caught.code = "SQLITE_BUSY"
        /\ call[c1].result.code = "SQLITE_BUSY"
        /\ call[c2].result.kind = "entry"
        /\ call[c2].date = call[c1].date
        /\ call[c1].found = NoEntry /\ call[c2].found = NoEntry
        /\ Cardinality(rows) = 1

(***************************************************************************)
(* Validation of candidates that break several rules                       *)
(***************************************************************************)

\* Candidates for the boundary check: dates, emojis and notes that are
\* missing, of the wrong type, ill-formed or out of range.
ValidateInputs ==
    [date : {MissingDate, MalformedDate, NumberDate, Day1, YMD(2025, 2, 30)},
     emoji : {"", "other", NumberEmoji, "happy"},
     note : {UndefinedNote, NullNote, NumberNote, StrNote(1, "a"), StrNote(501, "a")}]

\* createMoodEntry is given what the store can hold: a note that is absent,
\* null or a string.
ConstructInputs == {data \in ValidateInputs : data.note.kind # "number"}

NextValidate ==
    \/ \E data \in ValidateInputs : ValidateInputCall(1, data)
    \/ \E data \in ConstructInputs : CreateCall(1, data)
    \/ CreateInsert(1)

SpecValidate == InitCreate /\ [][NextValidate]_vars

\* The messages of the rules candidate data breaks: at the boundary check
\* (typed) the type rules come first, at construction there are none.
Expected(data, typed) ==
    (IF data.date.kind = "missing" THEN {"Date is required"} ELSE {})
    \cup (IF data.date.kind = "number" /\ typed THEN {"date must be a string"} ELSE {})
    \cup (IF \/ data.date.kind = "malformed"
             \/ data.date.kind = "number" /\ ~typed
             \/ data.date.kind = "ymd" /\ ~RealDate(data.date)
          THEN {"date must be in YYYY-MM-DD format"} ELSE {})
    \cup (IF data.emoji = "" THEN {"Emoji is required"} ELSE {})
    \cup (IF data.emoji = NumberEmoji /\ typed THEN {"Emoji must be a string"} ELSE {})
    \cup (IF \/ data.emoji = "other"
             \/ data.emoji = NumberEmoji /\ ~typed
          THEN {"emoji must be one of: sad, neutral, happy, very_happy, loved"} ELSE {})
    \cup (IF data.note.kind = "number" /\ typed THEN {"note must be a string"} ELSE {})
    \cup (IF data.note.kind = "string" /\ data.note.chars > 500
          THEN {"note must be 500 characters or less"} ELSE {})

Reported(k) == {k.result.message.errors[i] : i \in 1..Len(k.result.message.errors)}

\* C23: a candidate that breaks rules is refused with a message for every
\* rule it breaks, by the MoodEntry constructor as well as by
\* MoodEntry.validateInput.
C23_EveryViolationReported ==
    \A c \in Calls :
        /\ (call[c].op = "create" /\ Expected(call[c].data, FALSE) # {}) =>
              /\ call[c].pc = "done" /\ call[c].result.name = "ValidationError"
              /\ Expected(call[c].data, FALSE) \subseteq Reported(call[c])
        /\ (call[c].op = "validateInput" /\ Expected(call[c].data, TRUE) # {}) =>
              /\ call[c].result.kind = "invalid"
              /\ Expected(call[c].data, TRUE) \subseteq Reported(call[c])

(***************************************************************************)
(* POST /api/moods and its performance budget                              *)
(***************************************************************************)

\* The durations a timer can measure, in ms: within the budget, at it and
\* beyond it.
Durations == {1, BudgetMoodEntry, BudgetMoodEntry + 1}

NextRoute ==
    \/ \E c \in 1..2, body \in Candidates : PostCall(c, body)
    \/ \E c \in 1..2 : CreateInsert(c)
    \/ \E c \in 1..2, e \in StoreFailures : CreateInsertFails(c, e)
    \/ \E c \in 1..2, duration \in Durations : Respond(c, duration)

SpecRoute == Init /\ [][NextRoute]_vars

\* C24: the step in which POST /api/moods answers, after its timer has
\* ended, changes neither the table nor the outcome of createMoodEntry, and
\* the status and body it sends follow from that outcome alone, whatever
\* the duration measured: 201 with the entry, 409 with message and
\* suggestion for DUPLICATE_DATE, 500 otherwise; over budget the route has
\* only logged a warning.
C24_BudgetIsAdvisory ==
    [][\A c \in Calls :
          (/\ call[c].op = "post" /\ call[c].pc = "done"
           /\ call[c].response = NoResponse /\ call'[c].response # NoResponse) =>
              LET res == call[c].result
                  sent == call'[c].response
              IN /\ rows' = rows /\ lastId' = lastId
                 /\ call'[c].result = res /\ call'[c].pc = "done"
                 /\ res.kind = "entry" =>
                       sent.status = 201 /\ sent.entry = res.entry
                 /\ (res.kind = "error" /\ res.code = "DUPLICATE_DATE") =>
                       /\ sent.status = 409 /\ sent.message = res.message
                       /\ sent.suggestion = res.suggestion
                 /\ (res.kind = "error" /\ res.code # "DUPLICATE_DATE") =>
                       sent.status = 500
                 /\ call'[c].warned => call'[c].duration > 100]_vars

\* Two POSTs took longer than the budget: one was answered 201 and the
\* warning was logged, the other was answered 409.
C24_Witness ==
    \E c1, c2 \in Calls :
        /\ call[c1].response.status = 201 /\ call[c1].duration > 100
        /\ call[c1].warned /\ call[c1].response.entry \in rows
        /\ call[c2].response.status = 409 /\ call[c2].duration > 100
        /\ ~call[c2].warned


(***************************************************************************)
(* getMoodEntries while other calls change the table                       *)
(***************************************************************************)

\* The options of the getMoodEntries calls that run beside mutations.
BesideOptions ==
    [limit : {1, 2}, page : {1, 2}, from : {MissingDate}, to : {MissingDate}]

NextBeside ==
    \/ \E c \in Calls, options \in BesideOptions : ListCall(c, options)
    \/ \E c \in Calls : ListPage(c)
    \/ \E c \in Calls, moodData \in Candidates : CreateCall(c, moodData)
    \/ \E c \in Calls : CreateInsert(c)
    \/ \E c \in Calls, date \in Dates : DeleteCall(c, date)
    \/ \E c \in Calls : DeleteRun(c)

SpecBeside == Init /\ [][NextBeside]_vars

Min(a, b) == IF a <= b THEN a ELSE b
Max(a, b) == IF a >= b THEN a ELSE b

\* C26: every page getMoodEntries returns holds
\* min(limit, max(0, total - (page-1)*limit)) entries, total being the total
\* of the same result, also when a createMoodEntry or a
\* deleteMoodEntryByDate completes between its two queries.
C26_ResultConsistent ==
    \A c \in Listed :
        LET res == call[c].result.page
        IN Len(res.moods) =
              Min(res.limit, Max(0, res.total - (res.page - 1) * res.limit))


(***************************************************************************)
(* The routes' lazy initialisation of the store                            *)
(***************************************************************************)

NextHost ==
    \/ \E c \in Calls, route \in Routes : EnsureDbInitialized(c, route)
    \/ \E c \in Calls : Initialized(c)

SpecHost == Init /\ [][NextHost]_vars

\* C27: whatever the interleaving of the requests, db.initialize() runs at
\* most once in the process, so at most one store connection is ever
\* opened.
C27_InitializeOnce == connections <= 1


(***************************************************************************)
(* Date checks and the time zone of the process                            *)
(***************************************************************************)

\* The offsets of local time the model tells apart.
Zones == {-1, 0}

ParamDates ==
    {MalformedDate, Day1, YMD(2025, 2, 30), YMD(2024, 2, 29), YMD(2025, 13, 1),
     YMD(2025, 1, 1)}

NextDateParam ==
    \/ \E c \in Calls, date \in ParamDates : ValidateDateParam(c, date)
    \/ \E c \in Calls, date \in ParamDates :
          CreateCall(c, [date |-> date, emoji |-> "happy", note |-> UndefinedNote])
    \/ \E c \in Calls : CreateInsert(c)

SpecDateParam == InitCreate /\ [][NextDateParam]_vars

\* C28: the verdict the date checks gave on a string is the verdict they
\* give on it under every offset of local time, and it is acceptance
\* exactly for the strings that name a real day of the calendar.
C28_VerdictSameInEveryZone ==
    \A c \in Calls :
        /\ (call[c].op = "validateDateParam") =>
              /\ \A z \in Zones :
                    (call[c].result.kind = "valid") = isValidDateString(call[c].date, z)
              /\ (call[c].result.kind = "valid") = RealDate(call[c].date)
        /\ (call[c].op = "create") =>
              /\ \A z \in Zones : (~DateRejected(c)) = isValidDate(call[c].data.date, z)
              /\ (~DateRejected(c)) = RealDate(call[c].data.date)


(***************************************************************************)
(* The page's offline entries                                              *)
(***************************************************************************)

NextTracker ==
    \/ \E data \in OfflineData : SaveMoodOffline(data)
    \/ SyncOfflineEntries
    \/ \E i \in 1..MaxOffline, success \in BOOLEAN : SubmitSettles(i, success)
    \/ SyncSettled

SpecTracker == Init /\ [][NextTracker]_vars

\* C29: when syncOfflineEntries ends, every entry whose submission failed
\* in that sync is still in the offline list and in localStorage.
C29_FailedEntriesKept ==
    [][(tracker.pc = "allSettled" /\ tracker'.pc = "idle") =>
          \A i \in 1..Len(tracker.results) :
              tracker.results[i] = "failure" =>
                  /\ Includes(tracker'.offlineEntries, tracker.entries[i])
                  /\ tracker'.localStorage.present
                  /\ Includes(tracker'.localStorage.entries, tracker.entries[i])]_vars


(***************************************************************************)
(* The service worker's queue of offline requests                          *)
(***************************************************************************)

NextWorker ==
    \/ \E data \in OfflineData : StoreOfflineRequest(data)
    \/ SetOfflineRequests
    \/ SyncOfflineMoodEntries
    \/ \E success \in BOOLEAN : SyncFetch(success)
    \/ SyncSetRemaining

SpecWorker == Init /\ [][NextWorker]_vars

\* C30: when syncOfflineMoodEntries ends, the stored queue holds every
\* request that storeOfflineRequest has stored, those stored during the
\* sync included, and that the sync has not POSTed successfully.
C30_UnpostedRequestsKept ==
    [][(worker.sync.pc = "fetch" /\ worker'.sync.pc = "idle") =>
          \A r \in worker'.stored \ worker'.posted :
              Includes(worker'.requests, r)]_vars
====
